---- MODULE Spec2Model ----
(***************************************************************************)
(* Model of terminalone/entity.py (Entity, SubEntity) and                  *)
(* terminalone/models/budgetflight.py (BudgetFlight): one entity instance, *)
(* its property mapping, and the operations that read and write it.        *)
(*                                                                         *)
(* A Python value is a pair <<type, n>>:                                   *)
(*   <<"int", n>>    the integer n                                         *)
(*   <<"str", n>>    the decimal string of n ("42")                        *)
(*   <<"txt", n>>    a non-numeric string; <<"txt", 0>> is the empty one   *)
(*   <<"dtstr", n>>  a date-time string in %Y-%m-%dT%H:%M:%S               *)
(*   <<"dt", n>>     the datetime object that string parses to             *)
(*   <<"bool", n>>, <<"float", n>>, <<"none", 0>>                          *)
(* An exception raised by a conversion is the pair <<exception, 0>>.       *)
(***************************************************************************)
EXTENDS Integers, Sequences, FiniteSets, TLC

NoVal == <<"absent", 0>>
EmptyMap == [f \in {} |-> NoVal]

IsErr(v) == v[1] \in {"TypeError", "ValueError", "AttributeError"}

\* Python truthiness, as used by `if self.properties.get('id')`.
Truthy(v) ==
    /\ v # NoVal
    /\ v[1] # "none"
    /\ ~(v[1] \in {"int", "bool", "float"} /\ v[2] = 0)
    /\ v # <<"txt", 0>>

\* isinstance(v, str): what str.join accepts as an item.
IsStr(v) == v[1] \in {"str", "txt", "dtstr"}

\* dict.get(key): None when the key is absent.
DictGet(m, f) == IF f \in DOMAIN m THEN m[f] ELSE <<"none", 0>>

----------------------------------------------------------------------------
(* Coercion functions.                                                     *)

\* int(value)
IntCast(v) ==
    CASE v[1] \in {"int", "str", "bool", "float"} -> <<"int", v[2]>>
      [] v[1] \in {"txt", "dtstr"} -> <<"ValueError", 0>>
      [] OTHER -> <<"TypeError", 0>>

\* float(value)
FloatCast(v) ==
    CASE v[1] \in {"int", "str", "bool", "float"} -> <<"float", v[2]>>
      [] v[1] \in {"txt", "dtstr"} -> <<"ValueError", 0>>
      [] OTHER -> <<"TypeError", 0>>

\* Entity._int_to_bool: bool(int(value))
_int_to_bool(v) ==
    LET i == IntCast(v)
    IN IF IsErr(i) THEN i ELSE <<"bool", IF i[2] = 0 THEN 0 ELSE 1>>

\* Entity._strpt: a datetime passes through, a string is parsed.
_strpt(v) ==
    CASE v[1] = "dt" -> v
      [] v[1] = "dtstr" -> <<"dt", v[2]>>
      [] v[1] \in {"str", "txt"} -> <<"ValueError", 0>>
      [] OTHER -> <<"TypeError", 0>>

\* Entity._strft: ti.strftime(...); anything but a datetime has no strftime.
_strft(v) ==
    IF v[1] = "dt" THEN <<"dtstr", v[2]>> ELSE <<"AttributeError", 0>>

\* Applying an entry of a _pull/_push table; "None" is the entry None.
Coerce(c, v) ==
    CASE c = "int" -> IntCast(v)
      [] c = "float" -> FloatCast(v)
      [] c = "int_to_bool" -> _int_to_bool(v)
      [] c = "strpt" -> _strpt(v)
      [] c = "strft" -> _strft(v)
      [] OTHER -> v

----------------------------------------------------------------------------
(* Static configuration of the entity kinds.                               *)

Kinds == {"Entity", "SubEntity", "BudgetFlight"}

\* Entity._readonly
EntityReadonly ==
    {"id", "build_date", "created_on", "_type", "updated_on", "last_modified"}

\* Entity._readonly_update
EntityReadonlyUpdate == {}

\* BudgetFlight._relations
BudgetFlightRelations == {"campaign"}

\* BudgetFlight._pull
BudgetFlightPull(f) ==
    CASE f \in {"campaign_id", "id", "version"} -> "int"
      [] f \in {"created_on", "updated_on", "start_date", "end_date"} -> "strpt"
      [] f = "is_relevant" -> "int_to_bool"
      [] f = "total_budget" -> "float"
      [] OTHER -> "None"

\* BudgetFlight._push = _pull.copy()
BudgetFlightPush(f) == BudgetFlightPull(f)

\* BudgetFlight._readonly
BudgetFlightReadonly ==
    EntityReadonly \cup {"campaign_id", "zone_name", "is_relevant", "currency_code"}

\* The tables of a resource kind that derives from Entity or SubEntity
\* without overriding save: identifiers are integers, a date is parsed on
\* read and formatted on write, currency_code is frozen after creation.
ResourcePull(f) ==
    CASE f \in {"id", "version"} -> "int"
      [] f = "start_date" -> "strpt"
      [] OTHER -> "None"

ResourcePush(f) ==
    CASE f = "start_date" -> "strft"
      [] OTHER -> "None"

ResourceRelations == {"campaign"}

ResourceReadonlyUpdate == {"currency_code"}

\* self._pull.get(f), self._push.get(f), self._readonly, self._relations,
\* self._readonly_update as the instance's class resolves them.
Pull(k, f) == IF k = "BudgetFlight" THEN BudgetFlightPull(f) ELSE ResourcePull(f)

Push(k, f) == IF k = "BudgetFlight" THEN BudgetFlightPush(f) ELSE ResourcePush(f)

Readonly(k) == IF k = "BudgetFlight" THEN BudgetFlightReadonly ELSE EntityReadonly

Relations(k) == IF k = "BudgetFlight" THEN BudgetFlightRelations ELSE ResourceRelations

ReadonlyUpdate(k) ==
    IF k = "BudgetFlight" THEN EntityReadonlyUpdate ELSE ResourceReadonlyUpdate

\* The field that names the parent resource of a nested kind.
ParentField(k) == IF k = "BudgetFlight" THEN "campaign_id" ELSE "parent_id"

----------------------------------------------------------------------------
(* Bounds: the fields and the values the caller and the server supply.     *)

MaxInitFields == 2
MaxSetLen == 2

CommonFields == {"id", "version", "name", "start_date", "campaign", "currency_code"}

KindFields(k) ==
    IF k = "Entity" THEN CommonFields ELSE CommonFields \cup {ParentField(k)}

\* Values a caller passes for a field.
UserVals(f) ==
    CASE f = "id" -> {<<"str", 42>>, <<"int", 0>>, <<"none", 0>>}
      [] f = "version" -> {<<"str", 3>>}
      [] f = "name" -> {<<"txt", 1>>}
      [] f = "start_date" -> {<<"dtstr", 1>>, <<"dt", 1>>}
      [] f = "campaign" -> {<<"txt", 2>>}
      [] f = "currency_code" -> {<<"txt", 3>>}
      [] OTHER -> {<<"str", 5>>, <<"int", 5>>}

AllUserVals == UNION {UserVals(f) : f \in CommonFields \cup {"parent_id"}}

\* Explicit payloads passed to save(data) / update(data).
Payloads ==
    { [f \in {"name"} |-> <<"txt", 1>>],
      [f \in {"name", "version"} |-> IF f = "name" THEN <<"txt", 1>> ELSE <<"int", 3>>],
      [f \in {"id", "name", "campaign"} |->
          IF f = "id" THEN <<"int", 42>> ELSE IF f = "name" THEN <<"txt", 1>> ELSE <<"txt", 2>>],
      [f \in {"currency_code", "start_date"} |->
          IF f = "start_date" THEN <<"dt", 1>> ELSE <<"txt", 3>>],
      [f \in {"start_date"} |-> <<"dtstr", 1>>] }

\* The data argument of save: None, or an explicit mapping.
DataChoices ==
    {[given |-> FALSE, d |-> EmptyMap]} \cup {[given |-> TRUE, d |-> p] : p \in Payloads}

\* What the server sends back.
ServerId == <<"str", 42>>
ServerVersion == <<"str", 3>>
HistoryLists == {<<>>, <<[f \in {"version"} |-> <<"str", 3>>]>>}

----------------------------------------------------------------------------
(* State.                                                                  *)

VARIABLES
    kind,        \* the class of the instance
    properties,  \* self.properties
    supplied,    \* for each field of properties, the value last supplied for it
    last         \* what the last call did: requests, payload, error, result

vars == <<kind, properties, supplied, last>>

NoUrl == [path |-> "none", id |-> NoVal, parent |-> NoVal]

\* The record of a call that has done nothing yet.
Call(op, before) ==
    [ op |-> op,              \* the method called
      before |-> before,      \* self.properties when it was called
      err |-> "none",         \* the exception it raised
      detail |-> "",          \* the attribute or the reason of the exception
      url |-> NoUrl,          \* the URL it built
      nreq |-> 0,             \* requests it handed to the transport
      reached |-> FALSE,      \* _validate_write was called
      update |-> FALSE,       \* _validate_write's `update`
      input |-> EmptyMap,     \* the mapping given to _validate_write
      validated |-> FALSE,    \* _validate_write returned
      payload |-> EmptyMap,   \* the mapping it returned
      response |-> EmptyMap,  \* the entity the transport returned
      got |-> <<>>,           \* the list the transport returned to history
      ret |-> <<>> ]          \* the value history returned

----------------------------------------------------------------------------
(* Attribute access.                                                       *)

\* Entity.__getattr__: the value, or AttributeError.
__getattr__(props, f) ==
    IF f \in DOMAIN props THEN props[f] ELSE <<"AttributeError", 0>>

\* Entity.__setattr__: the mapping with f set, or the exception of the
\* read-coercion, which leaves the mapping as it was.
__setattr__(k, props, f, v) ==
    LET c == Coerce(Pull(k, f), v)
    IN IF IsErr(c)
       THEN [err |-> c[1], props |-> props]
       ELSE [err |-> "none",
             props |-> [g \in DOMAIN props \cup {f} |-> IF g = f THEN c ELSE props[g]]]

\* Entity.__init__ on a properties mapping: every value through its
\* read-coercion.
Hydrate(k, raw) == [f \in DOMAIN raw |-> Coerce(Pull(k, f), raw[f])]

\* The mappings __init__ accepts: none of the coercions raises.
InitRaws(k) ==
    { m \in UNION { [S -> AllUserVals] :
                      S \in {T \in SUBSET KindFields(k) : Cardinality(T) <= MaxInitFields} } :
        \A f \in DOMAIN m : m[f] \in UserVals(f) /\ ~IsErr(Coerce(Pull(k, f), m[f])) }

----------------------------------------------------------------------------
(* Write validation.                                                       *)

\* _validate_write, `update`: an id key is in the properties.
IsUpdate(props) == "id" \in DOMAIN props

\* A validation that sets the version on every payload that lacks one.
NeedsVersionAlways(props, data) == "version" \notin DOMAIN data

\* A validation that leaves the version out when the instance has none.
NeedsVersionIfHeld(props, data) ==
    "version" \notin DOMAIN data /\ IsUpdate(props) /\ "version" \in DOMAIN props

\* _validate_write, the condition under which data['version'] is set from
\* self.version.
NeedsVersion(props, data) == "version" \notin DOMAIN data /\ IsUpdate(props)

\* A loop that forgets the relation set.
DroppedButRelations(k, update, f) ==
    \/ f \in Readonly(k)
    \/ (update /\ f \in ReadonlyUpdate(k))

\* _validate_write, the keys the loop deletes.
Dropped(k, update, f) ==
    \/ f \in Readonly(k)
    \/ f \in Relations(k)
    \/ (update /\ f \in ReadonlyUpdate(k))

\* Entity._validate_write(data) on an instance whose mapping is props: the
\* set of outcomes [err, detail, update, out], out being what the dict
\* `data` holds when the call returns or raises.  The loop runs over the
\* dict in its iteration order, so a coercion that raises leaves any set S
\* of the other keys already processed.
_validate_write(k, props, data) ==
    LET update == IsUpdate(props)
        inject == NeedsVersion(props, data)
        version == __getattr__(props, "version")
    IN IF inject /\ IsErr(version)
       THEN {[err |-> version[1], detail |-> "version", update |-> update, out |-> data]}
       ELSE
         LET d1 == IF inject
                   THEN [f \in DOMAIN data \cup {"version"} |->
                            IF f = "version" THEN version ELSE data[f]]
                   ELSE data
             K == DOMAIN d1
             drop == {f \in K : Dropped(k, update, f)}
             pushed(f) == Coerce(Push(k, f), d1[f])
             bad == {f \in K \ drop : IsErr(pushed(f))}
             After(S) == [f \in K \ (S \cap drop) |-> IF f \in S THEN pushed(f) ELSE d1[f]]
         IN IF bad = {}
            THEN {[err |-> "none", detail |-> "", update |-> update, out |-> After(K)]}
            ELSE {[err |-> pushed(b)[1], detail |-> b, update |-> update, out |-> After(S)] :
                     b \in bad, S \in SUBSET (K \ bad)}

\* Entity._update_self / Entity.set on a mapping whose values all pass their
\* read-coercion: setattr for every key.
_update_self(k, props, entity) ==
    [f \in DOMAIN props \cup DOMAIN entity |->
        IF f \in DOMAIN entity THEN __setattr__(k, props, f, entity[f]).props[f] ELSE props[f]]

----------------------------------------------------------------------------
(* The transport and the remote API.                                       *)

\* The server's textual form of a value.
Wire(v) ==
    CASE v[1] \in {"int", "bool", "float"} -> <<"str", v[2]>>
      [] v[1] = "dt" -> <<"dtstr", v[2]>>
      [] OTHER -> v

\* The entity a successful create/update call returns: the canonical fields
\* of the saved entity, with its id and version.
ServerEntity(url, payload) ==
    [f \in DOMAIN payload \cup {"id", "version"} |->
        CASE f = "id" -> IF url.id # NoVal THEN Wire(url.id) ELSE ServerId
          [] f = "version" -> ServerVersion
          [] OTHER -> Wire(payload[f])]

\* Connection._construct_url: the collection, with the id when there is one.
_construct_url(props) ==
    IF Truthy(DictGet(props, "id"))
    THEN [path |-> "item", id |-> props["id"], parent |-> NoVal]
    ELSE [path |-> "collection", id |-> NoVal, parent |-> NoVal]

\* Entity._reset_properties(properties)
_reset_properties(new) == new

----------------------------------------------------------------------------
(* save, update, history, delete: each gives the set of outcomes           *)
(* [props, last] of one call.                                              *)

\* Entity.save, the URL: id-suffixed when properties.get('id') is truthy.
EntitySaveUrl(props) ==
    IF Truthy(DictGet(props, "id"))
    THEN [path |-> "item", id |-> props["id"], parent |-> NoVal]
    ELSE [path |-> "collection", id |-> NoVal, parent |-> NoVal]

\* Entity.save from the validation on: validate data or self.properties
\* itself, post, apply the returned entity.  c is the call so far, net
\* whether the transport succeeds.
PostAndUpdate(k, props, c, dc, net) ==
    LET input == IF dc.given THEN dc.d ELSE props
    IN { LET cur == IF dc.given THEN props ELSE o.out
             c1 == [c EXCEPT !.reached = TRUE, !.update = o.update, !.input = input]
             c2 == [c1 EXCEPT !.validated = TRUE, !.payload = o.out, !.nreq = 1]
             resp == ServerEntity(c.url, o.out)
         IN IF o.err # "none"
            THEN [props |-> cur, last |-> [c1 EXCEPT !.err = o.err, !.detail = o.detail]]
            ELSE IF ~net
            THEN [props |-> cur,
                  last |-> [c2 EXCEPT !.err = "ClientError", !.detail = "transport"]]
            ELSE [props |-> _update_self(k, cur, resp),
                  last |-> [c2 EXCEPT !.response = resp]]
         : o \in _validate_write(k, props, input) }

\* Entity.save
EntitySave(k, props, op, dc, net) ==
    PostAndUpdate(k, props, [Call(op, props) EXCEPT !.url = EntitySaveUrl(props)], dc, net)

\* SubEntity.save: the URL is joined from self.parent_id and, with an id,
\* self.id; str.join raises TypeError on an item that is not a string.
SubEntitySave(k, props, op, dc, net) ==
    LET c == Call(op, props)
        withId == Truthy(DictGet(props, "id"))
    IN IF "parent_id" \notin DOMAIN props
       THEN {[props |-> props,
              last |-> [c EXCEPT !.err = "AttributeError", !.detail = "parent_id"]]}
       ELSE IF ~IsStr(props["parent_id"]) \/ (withId /\ ~IsStr(props["id"]))
       THEN {[props |-> props, last |-> [c EXCEPT !.err = "TypeError", !.detail = "join"]]}
       ELSE PostAndUpdate(k, props,
                [c EXCEPT !.url = [path |-> IF withId THEN "item" ELSE "collection",
                                   id |-> IF withId THEN props["id"] ELSE NoVal,
                                   parent |-> props["parent_id"]]],
                dc, net)

\* BudgetFlight._get_path: 'campaigns/{campaign_id}/' + _construct_url()
_get_path(props) == [_construct_url(props) EXCEPT !.parent = props["campaign_id"]]

\* BudgetFlight.save: campaign_id must be there; without data a copy of the
\* properties is saved.
BudgetFlightSave(k, props, op, dc, net) ==
    LET c == Call(op, props)
    IN IF "campaign_id" \notin DOMAIN props
       THEN {[props |-> props,
              last |-> [c EXCEPT !.err = "ClientError", !.detail = "campaign_id not specified"]]}
       ELSE PostAndUpdate(k, props, [c EXCEPT !.url = _get_path(props)],
                [given |-> TRUE, d |-> IF dc.given THEN dc.d ELSE props], net)

\* A delete that blanks the properties whether or not the call returned.
DeleteFinishAlways(r) == [r EXCEPT !.props = _reset_properties(EmptyMap)]

\* BudgetFlight.delete, after super().save(): the properties are blanked
\* when it returned, not when it raised.
DeleteFinish(r) ==
    IF r.last.err = "none" THEN [r EXCEPT !.props = _reset_properties(EmptyMap)] ELSE r

\* BudgetFlight.delete: posts the version to <path>/delete and blanks the
\* properties once the call has returned.
BudgetFlightDelete(k, props, net) ==
    LET c == Call("delete", props)
    IN IF "id" \notin DOMAIN props
       THEN {[props |-> props,
              last |-> [c EXCEPT !.err = "ClientError", !.detail = "no ID"]]}
       ELSE IF "campaign_id" \notin DOMAIN props
       THEN {[props |-> props,
              last |-> [c EXCEPT !.err = "AttributeError", !.detail = "campaign_id"]]}
       ELSE IF "version" \notin DOMAIN props
       THEN {[props |-> props,
              last |-> [c EXCEPT !.err = "AttributeError", !.detail = "version"]]}
       ELSE { DeleteFinish(r)
              : r \in PostAndUpdate(k, props,
                        [c EXCEPT !.url = [_get_path(props) EXCEPT !.path = "delete"]],
                        [given |-> TRUE, d |-> [f \in {"version"} |-> props["version"]]],
                        net) }

\* A history that passes every entry through the read-coercions.
HistoryReturnCoerced(k, h) == [i \in DOMAIN h |-> Hydrate(k, h[i])]

\* Entity.history, the value returned: the list the transport decoded.
HistoryReturn(k, h) == h

\* Entity.history
EntityHistory(k, props, net, h) ==
    LET c == Call("history", props)
    IN IF ~Truthy(DictGet(props, "id"))
       THEN [props |-> props,
             last |-> [c EXCEPT !.err = "ClientError", !.detail = "Entity ID not given"]]
       ELSE LET c1 == [c EXCEPT !.nreq = 1,
                                !.url = [path |-> "history", id |-> props["id"], parent |-> NoVal]]
            IN IF ~net
               THEN [props |-> props,
                     last |-> [c1 EXCEPT !.err = "ClientError", !.detail = "transport"]]
               ELSE [props |-> props, last |-> [c1 EXCEPT !.got = h, !.ret = HistoryReturn(k, h)]]

----------------------------------------------------------------------------
(* The instance and the calls made on it.                                  *)

\* Entity.__init__: without properties, or hydrated from a raw mapping.
Init ==
    /\ kind \in Kinds
    /\ \E raw \in {EmptyMap} \cup InitRaws(kind) :
          /\ properties = Hydrate(kind, raw)
          /\ supplied = raw
    /\ last = Call("init", EmptyMap)

\* The values last supplied, after a call with outcome r.
Supplied(r) ==
    [f \in DOMAIN r.props |->
        IF r.last.err = "none" /\ f \in DOMAIN r.last.response
        THEN r.last.response[f]
        ELSE supplied[f]]

Apply(r) ==
    /\ properties' = r.props
    /\ supplied' = Supplied(r)
    /\ last' = r.last
    /\ UNCHANGED kind

\* The save method of the instance's class.
SaveOutcomes(op, dc, net) ==
    CASE kind = "Entity" -> EntitySave(kind, properties, op, dc, net)
      [] kind = "SubEntity" -> SubEntitySave(kind, properties, op, dc, net)
      [] OTHER -> BudgetFlightSave(kind, properties, op, dc, net)

\* obj.save(data) / obj.save()
Save ==
    \E dc \in DataChoices, net \in BOOLEAN :
        \E r \in SaveOutcomes("save", dc, net) : Apply(r)

\* Entity.update: return self.save(*args, **kwargs)
Update ==
    \E dc \in DataChoices, net \in BOOLEAN :
        \E r \in SaveOutcomes("update", dc, net) : Apply(r)

\* obj.history()
History ==
    \E net \in BOOLEAN, h \in HistoryLists :
        Apply(EntityHistory(kind, properties, net, h))

\* obj.delete(), which BudgetFlight alone defines
Delete ==
    /\ kind = "BudgetFlight"
    /\ \E net \in BOOLEAN :
          \E r \in BudgetFlightDelete(kind, properties, net) : Apply(r)

\* obj.<f> = v
SetAttr ==
    \E f \in KindFields(kind) : \E v \in UserVals(f) :
        LET r == __setattr__(kind, properties, f, v)
        IN /\ properties' = r.props
           /\ supplied' = IF r.err = "none"
                          THEN [g \in DOMAIN r.props |-> IF g = f THEN v ELSE supplied[g]]
                          ELSE supplied
           /\ last' = [Call("setattr", EmptyMap) EXCEPT !.err = r.err]
           /\ UNCHANGED kind

\* The mappings passed to set(), as their items in iteration order.
SetFields == {"id", "version", "start_date"}

SetInputs ==
    LET Pairs == UNION {{<<f, v>> : v \in UserVals(f)} : f \in SetFields}
    IN {q \in UNION {[1..n -> Pairs] : n \in 1..MaxSetLen} :
           \A i, j \in DOMAIN q : i # j => q[i][1] # q[j][1]}

\* Entity.set: setattr per item; the first coercion that raises ends the
\* loop with the earlier items assigned.
RECURSIVE SetItems(_, _, _, _)
SetItems(k, props, sup, q) ==
    IF q = <<>>
    THEN [err |-> "none", props |-> props, sup |-> sup]
    ELSE LET f == q[1][1]
             v == q[1][2]
             r == __setattr__(k, props, f, v)
         IN IF r.err # "none"
            THEN [err |-> r.err, props |-> props, sup |-> sup]
            ELSE SetItems(k, r.props,
                          [g \in DOMAIN r.props |-> IF g = f THEN v ELSE sup[g]], Tail(q))

\* obj.set(mapping)
Set ==
    \E q \in SetInputs :
        LET r == SetItems(kind, properties, supplied, q)
        IN /\ properties' = r.props
           /\ supplied' = r.sup
           /\ last' = [Call("set", EmptyMap) EXCEPT !.err = r.err]
           /\ UNCHANGED kind

Next == Save \/ Update \/ History \/ Delete \/ SetAttr \/ Set

Spec == Init /\ [][Next]_vars

----------------------------------------------------------------------------
(* Properties.                                                             *)

IsSave == last.op \in {"save", "update"}

\* C1: a save or update that raises leaves the property mapping as it was
\* before the call.
C1_SaveAllOrNothing ==
    (IsSave /\ last.err # "none") => properties = last.before

\* C10: a request of save goes to the id-suffixed URL exactly when write
\* validation treated the call as an update.
C10_UrlAgreesWithValidation ==
    (IsSave /\ last.nreq = 1) => (last.url.path = "item" <=> last.update)

\* C5: every value of the property mapping is the read-coercion of the value
\* that was supplied for its field.
C5_PropertiesReadCoerced ==
    \A f \in DOMAIN properties : properties[f] = Coerce(Pull(kind, f), supplied[f])

\* C7: saving a nested instance whose parent identifier is absent raises
\* ClientError with no URL built and no request issued.
C7_NoParentClientError ==
    (IsSave /\ kind \in {"SubEntity", "BudgetFlight"}
            /\ ParentField(kind) \notin DOMAIN last.before)
        => (last.err = "ClientError" /\ last.url = NoUrl /\ last.nreq = 0)

\* C2: the mapping write validation returns has no read-only key and no
\* relation key, on an update no update-read-only key either, and holds every
\* other key of the input with its write-coercion applied.
C2_WriteValidationFilters ==
    last.validated =>
        LET update == "id" \in DOMAIN last.before
            gone(f) == \/ f \in Readonly(kind) \cup Relations(kind)
                       \/ (update /\ f \in ReadonlyUpdate(kind))
        IN /\ DOMAIN last.payload \cap (Readonly(kind) \cup Relations(kind)) = {}
           /\ update => DOMAIN last.payload \cap ReadonlyUpdate(kind) = {}
           /\ DOMAIN last.payload \subseteq DOMAIN last.input \cup {"version"}
           /\ \A f \in DOMAIN last.input :
                 ~gone(f) => /\ f \in DOMAIN last.payload
                             /\ last.payload[f] = Coerce(Push(kind, f), last.input[f])

\* An update of a resource validated its own properties: id, relation and
\* frozen field were dropped, the date was formatted.
C2_Witness ==
    /\ kind = "Entity"
    /\ IsSave
    /\ last.validated
    /\ {"id", "campaign", "currency_code", "start_date", "name"} \subseteq DOMAIN last.input
    /\ last.input["start_date"] = <<"dt", 1>>
    /\ DOMAIN last.payload = {"version", "start_date", "name"}
    /\ last.payload["start_date"] = <<"dtstr", 1>>

PersistedScenario == ("id" :> <<"int", 42>>) @@ ("version" :> <<"int", 3>>)

NameOnly == ("name" :> <<"txt", 1>>)

\* C3: validating a payload without version adds the instance's version when
\* the instance has an id and adds none when it has no id; the instance
\* id=42, version=3 saving {'name': 'x'} posts {'name': 'x', 'version': 3}
\* to the id-suffixed URL.
C3_VersionInjection ==
    /\ (IsSave /\ last.validated /\ "version" \notin DOMAIN last.input) =>
          IF "id" \in DOMAIN last.before
          THEN /\ "version" \in DOMAIN last.payload
               /\ last.payload["version"] = last.before["version"]
          ELSE "version" \notin DOMAIN last.payload
    /\ (IsSave /\ kind = "Entity" /\ last.before = PersistedScenario
               /\ last.reached /\ last.input = NameOnly) =>
          /\ last.nreq = 1
          /\ last.payload = NameOnly @@ ("version" :> <<"int", 3>>)
          /\ last.url = [path |-> "item", id |-> <<"int", 42>>, parent |-> NoVal]

C3_Witness ==
    /\ kind = "Entity"
    /\ last.op = "save"
    /\ last.before = PersistedScenario
    /\ last.input = NameOnly
    /\ last.nreq = 1
    /\ last.payload["version"] = <<"int", 3>>

\* C4: a save that issues a request sends it to the collection URL when the
\* instance has no id and to the id-suffixed URL when it has one; after a
\* save that returned, the properties hold the id and every other field of
\* the response, each read-coerced, and attribute access returns the id.
C4_SaveLifecycle ==
    /\ (IsSave /\ last.nreq = 1) =>
          IF "id" \in DOMAIN last.before
          THEN last.url.path = "item" /\ last.url.id = last.before["id"]
          ELSE last.url.path = "collection" /\ last.url.id = NoVal
    /\ (IsSave /\ last.err = "none") =>
          /\ \A f \in DOMAIN last.response :
                /\ f \in DOMAIN properties
                /\ properties[f] = Coerce(Pull(kind, f), last.response[f])
          /\ "id" \in DOMAIN last.response
          /\ __getattr__(properties, "id") = Coerce(Pull(kind, "id"), last.response["id"])

\* C6 as stated: history raises ClientError with no request when the
\* instance has no id, and otherwise issues one read of <collection>/<id>/history,
\* returns the decoded list as it is and leaves the properties alone.
C6_HistoryByPresence ==
    last.op = "history" =>
        /\ properties = last.before
        /\ IF "id" \notin DOMAIN last.before
           THEN last.err = "ClientError" /\ last.nreq = 0
           ELSE /\ last.nreq = 1
                /\ last.url = [path |-> "history", id |-> last.before["id"], parent |-> NoVal]
                /\ last.err = "none" => last.ret = last.got

\* C6 amended: history raises ClientError with no request when the id is
\* absent or falsy, and with a truthy id issues one read of
\* <collection>/<id>/history, returns the decoded list as it is when the read
\* succeeds, and leaves the properties alone.
C6_HistoryByTruthiness ==
    last.op = "history" =>
        /\ properties = last.before
        /\ IF ~Truthy(DictGet(last.before, "id"))
           THEN last.err = "ClientError" /\ last.detail = "Entity ID not given" /\ last.nreq = 0
           ELSE /\ last.nreq = 1
                /\ last.url = [path |-> "history", id |-> last.before["id"], parent |-> NoVal]
                /\ last.err = "none" => last.ret = last.got
                /\ last.err # "none" => last.err = "ClientError" /\ last.detail = "transport"

C6_Witness ==
    /\ last.op = "history"
    /\ last.err = "none"
    /\ last.nreq = 1
    /\ last.before # EmptyMap
    /\ Len(last.ret) = 1

\* C8: a save that reaches write validation on an instance with an id and no
\* version, with no version in the data, raises AttributeError on version and
\* issues no request; no save of such an instance posts a payload without
\* version.
C8_UpdateWithoutVersionFails ==
    (IsSave /\ "id" \in DOMAIN last.before /\ "version" \notin DOMAIN last.before) =>
        /\ (last.reached /\ "version" \notin DOMAIN last.input) =>
              /\ last.err = "AttributeError"
              /\ last.detail = "version"
              /\ last.nreq = 0
              /\ ~last.validated
        /\ last.nreq = 1 => "version" \in DOMAIN last.payload

C8_Witness ==
    /\ IsSave
    /\ kind = "Entity"
    /\ last.before = ("id" :> <<"int", 42>>)
    /\ last.input = NameOnly
    /\ last.err = "AttributeError"
    /\ last.detail = "version"
    /\ last.nreq = 0

====
